---- MODULE Spec2Model ----
(***************************************************************************)
(* Model of setup.py of JPype1 (the build script of the _jpype extension)  *)
(* and of the VM Embedding Manager contract of spec.md section 4.1.        *)
(*                                                                         *)
(* Python strings that are paths are sequences of path components; a       *)
(* Python value that may be None is a record [isNone, s].                  *)
(***************************************************************************)
EXTENDS Integers, Sequences, FiniteSets, TLC

VARIABLES pc, cmdline, argv, disabled_numpy, platform, env_JAVA_HOME, fs,
          numpy_available, platform_specific, java_home, possible_homes,
          jpypeLib, err, banner, warned,
          vmHandles, vmNextId, nativeRefs, attached, vmLastOp, vmResult

\* pc               position in the module body of setup.py
\* cmdline          sys.argv as the script was started
\* argv             sys.argv
\* disabled_numpy   disabled_numpy (lines 19-23)
\* platform         sys.platform
\* env_JAVA_HOME    os.getenv('JAVA_HOME')
\* fs               the paths for which os.path.exists is true
\* numpy_available  whether 'import numpy' succeeds
\* platform_specific, java_home, possible_homes, jpypeLib: the script's globals
\* err              the exception that ended the script, banner: show_error ran
\* warned           the FeatureNotice issued by build_extensions
\* vmHandles        the live VmHandles, vmNextId the next handle identity
\* nativeRefs       the registered NativeRefs, attached the attached threads
\* vmLastOp, vmResult: the last bridge operation and its outcome
buildVars == <<pc, cmdline, argv, disabled_numpy, platform, env_JAVA_HOME, fs,
               numpy_available, platform_specific, java_home, possible_homes,
               jpypeLib, err, banner, warned>>
vmVars == <<vmHandles, vmNextId, nativeRefs, attached, vmLastOp, vmResult>>
vars == <<buildVars, vmVars>>

(* ------------------------------ bounds --------------------------------- *)
\* longest command line after the script name
MaxArgs == 2
\* number of VmHandle identities that start() may hand out
MaxStarts == 3
\* number of NativeRefs and of host threads
MaxRefs == 2
MaxThreads == 2

(* --------------------------- Python helpers ---------------------------- *)
BoundedSeq(S, n) == UNION {[1..k -> S] : k \in 0..n}

Perms(S) == {s \in [1..Cardinality(S) -> S] : \A x \in S : \E i \in DOMAIN s : s[i] = x}

\* x in lst
Contains(lst, x) == \E i \in DOMAIN lst : lst[i] = x

\* list.remove(x): drops the first occurrence only
RECURSIVE RemoveFirst(_, _)
RemoveFirst(lst, x) ==
    IF lst = <<>> THEN <<>>
    ELSE IF Head(lst) = x THEN Tail(lst)
    ELSE <<Head(lst)>> \o RemoveFirst(Tail(lst), x)

PyNone == [isNone |-> TRUE, s |-> <<>>]
PyStr(p) == [isNone |-> FALSE, s |-> p]
\* truth value of a str-or-None
Truthy(v) == ~v.isNone /\ v.s # <<>>

\* os.path.join(a, b) for a relative b
Join(a, b) == a \o b

\* os.path.exists
Exists(p) == p \in fs

(* --------------------------- input universes --------------------------- *)
Flag == "--disable-numpy"
ArgTokens == {Flag, "build_ext"}
CmdLines == {<<"setup.py">> \o a : a \in BoundedSeq(ArgTokens, MaxArgs)}

Platforms == {"win32", "darwin", "linux2"}

EnvHome == <<"/", "opt", "jdk">>
EnvValues == {PyNone, PyStr(<<>>), PyStr(EnvHome)}

JvmDir == <<"/", "usr", "lib", "jvm">>
JavaDir == <<"/", "usr", "java">>
JvmHomes == {Join(JvmDir, <<"jvmA">>), Join(JvmDir, <<"jvmB">>)}
JavaHomes == {Join(JavaDir, <<"jdkC">>)}
LinuxPaths == (JvmHomes \cup JavaHomes) \cup {Join(h, <<"include">>) : h \in JvmHomes \cup JavaHomes}
LinuxFs == {f \in SUBSET LinuxPaths :
              \A h \in JvmHomes \cup JavaHomes : Join(h, <<"include">>) \in f => h \in f}

DetectedHome == <<"/", "Library", "Java", "Home">>
FallbackHome == <<"/", "System", "Library", "Frameworks", "JavaVM.framework", "Home">>
FallbackHeaders == <<"/", "System", "Library", "Frameworks", "JavaVM.framework", "Headers">>
DarwinDirs == {Join(EnvHome, <<"include">>), Join(DetectedHome, <<"include">>),
               Join(FallbackHome, <<"Headers">>), FallbackHeaders}
DarwinPaths == DarwinDirs \cup {Join(d, <<"jni.h">>) : d \in DarwinDirs}
DarwinFs == {f \in SUBSET DarwinPaths :
               \A d \in DarwinDirs : Join(d, <<"jni.h">>) \in f => d \in f}

NativeTrees == {<<>>,
                <<[dir |-> <<"native", "common">>, name |-> "jp_env", ext |-> "cpp"],
                  [dir |-> <<"native", "common">>, name |-> "jp_env", ext |-> "h"],
                  [dir |-> <<"native", "python">>, name |-> "jpype_module", ext |-> "c"]>>}

\* platform.mac_ver()[0] as <<major, minor>>
MacVersions == {<<10, 5>>, <<10, 6>>, <<10, 10>>}
CompilerTypes == {"msvc", "unix", "mingw32"}
NumpyInclude == <<"site-packages", "numpy", "core", "include">>

EmptyDict == [k \in {} |-> <<>>]

(* ------------------------------- Init ---------------------------------- *)
VmIdle ==
    /\ vmHandles = {}
    /\ vmNextId = 1
    /\ nativeRefs = {}
    /\ attached = {}
    /\ vmLastOp = "none"
    /\ vmResult = "none"

Init ==
    /\ pc = "optout"
    /\ cmdline \in CmdLines
    /\ argv = cmdline
    /\ disabled_numpy = FALSE
    /\ platform \in Platforms
    /\ env_JAVA_HOME \in EnvValues
    /\ fs \in (CASE platform = "win32" -> {{}}
                 [] platform = "darwin" -> DarwinFs
                 [] OTHER -> LinuxFs)
    /\ numpy_available \in BOOLEAN
    /\ platform_specific = EmptyDict
    /\ java_home = PyNone
    /\ possible_homes = <<>>
    /\ jpypeLib = EmptyDict
    /\ err = "none"
    /\ banner = FALSE
    /\ warned = "none"
    /\ VmIdle

(* ----------------------- setup.py, lines 19-23 ------------------------- *)
OptOutArgv(a) == IF Contains(a, Flag) THEN RemoveFirst(a, Flag) ELSE a

OptOut ==
    /\ pc = "optout"
    /\ disabled_numpy' = Contains(argv, Flag)
    /\ argv' = OptOutArgv(argv)
    /\ pc' = "platform_specific"
    /\ UNCHANGED <<cmdline, platform, env_JAVA_HOME, fs, numpy_available,
                   platform_specific, java_home, possible_homes, jpypeLib,
                   err, banner, warned>>
    /\ UNCHANGED vmVars

(* ----------------------- setup.py, lines 34-53 ------------------------- *)
IsSource(f) == f.ext = "cpp" \/ f.ext = "c"

RECURSIVE find_sources(_)
find_sources(walk) ==
    IF walk = <<>> THEN <<>>
    ELSE (IF IsSource(Head(walk))
          THEN <<Join(Head(walk).dir, <<Head(walk).name, Head(walk).ext>>)>>
          ELSE <<>>) \o find_sources(Tail(walk))

NativeIncludes == << <<"native", "common", "include">>, <<"native", "python", "include">> >>

PlatformSpecific ==
    /\ pc = "platform_specific"
    /\ \E walk \in NativeTrees :
         platform_specific' = [include_dirs |-> NativeIncludes,
                               sources |-> find_sources(walk)]
    /\ java_home' = env_JAVA_HOME
    /\ pc' = "java_home"
    /\ UNCHANGED <<cmdline, argv, disabled_numpy, platform, env_JAVA_HOME, fs,
                   numpy_available, possible_homes, jpypeLib, err, banner, warned>>
    /\ UNCHANGED vmVars

(* ----------------------- setup.py, lines 56-64 ------------------------- *)
Win32Branch ==
    /\ pc = "java_home"
    /\ platform = "win32"
    /\ IF ~Truthy(java_home)
       THEN /\ err' = "SystemExit"
            /\ pc' = "aborted"
            /\ UNCHANGED platform_specific
       ELSE /\ platform_specific' =
                  ("libraries" :> <<"Advapi32">>) @@
                  ("define_macros" :> << <<"WIN32", 1>> >>) @@
                  [platform_specific EXCEPT !["include_dirs"] =
                      @ \o << Join(java_home.s, <<"include">>),
                              Join(java_home.s, <<"include", "win32">>) >>]
            /\ pc' = "extension"
            /\ UNCHANGED err
    /\ UNCHANGED <<cmdline, argv, disabled_numpy, platform, env_JAVA_HOME, fs,
                   numpy_available, java_home, possible_homes, jpypeLib,
                   banner, warned>>
    /\ UNCHANGED vmVars

(* ----------------------- setup.py, lines 83-96 ------------------------- *)
\* mac_ver()[0][:4]: "10.5.8" -> "10.5", "10.10.3" -> "10.1"
Trunc4(ver) == <<ver[1], IF ver[2] >= 10 THEN ver[2] \div 10 ELSE ver[2]>>

\* StrictVersion(a) >= StrictVersion(b)
VersionGE(a, b) == a[1] > b[1] \/ (a[1] = b[1] /\ a[2] >= b[2])

\* what /usr/libexec/java_home prints
JavaHomeOutput == DetectedHome \o <<"\n">>

\* str.strip() of a trailing newline
Strip(s) == IF s # <<>> /\ s[Len(s)] = "\n" THEN SubSeq(s, 1, Len(s) - 1) ELSE s

\* the value of java_home after lines 83-96, and the exception raised, if any;
\* the else of line 95 belongs to the if of line 83
DarwinJavaHome(jh, ver, has_check_output, exit_ok) ==
    IF ~Truthy(jh)
    THEN IF VersionGE(Trunc4(ver), <<10, 6>>)
         THEN IF has_check_output
              THEN IF exit_ok
                   THEN [err |-> "none", home |-> PyStr(Strip(JavaHomeOutput))]
                   ELSE [err |-> "CalledProcessError", home |-> jh]
              ELSE [err |-> "none",
                    home |-> PyStr(IF exit_ok THEN JavaHomeOutput ELSE <<>>)]
         ELSE [err |-> "none", home |-> jh]
    ELSE [err |-> "none", home |-> PyStr(FallbackHome)]

DarwinGuess ==
    /\ pc = "java_home"
    /\ platform = "darwin"
    /\ \E ver \in MacVersions, has_check_output \in BOOLEAN, exit_ok \in BOOLEAN :
         LET r == DarwinJavaHome(java_home, ver, has_check_output, exit_ok) IN
           /\ java_home' = r.home
           /\ err' = r.err
           /\ pc' = IF r.err = "none" THEN "darwin_includes" ELSE "aborted"
    /\ UNCHANGED <<cmdline, argv, disabled_numpy, platform, env_JAVA_HOME, fs,
                   numpy_available, platform_specific, possible_homes, jpypeLib,
                   banner, warned>>
    /\ UNCHANGED vmVars

(* ------------------- setup.py, lines 66-81 and 98-103 ------------------ *)
possible_includedirs(home) ==
    << Join(home, <<"Headers">>),
       Join(home, <<"include">>),
       Join(home, <<"include", "darwin">>),
       FallbackHeaders >>

HasJni(d) == Exists(Join(d, <<"jni.h">>))

\* the result of getJDKIncludes(java_home): the exception raised, whether
\* show_error was called, and the list returned
getJDKIncludes(jh) ==
    IF jh.isNone
    THEN [err |-> "AttributeError", banner |-> FALSE, dirs |-> <<>>]
    ELSE IF SelectSeq(possible_includedirs(jh.s), HasJni) = <<>>
         THEN [err |-> "RuntimeError", banner |-> TRUE, dirs |-> <<>>]
         ELSE [err |-> "none", banner |-> FALSE,
               dirs |-> SelectSeq(possible_includedirs(jh.s), Exists)]

DarwinIncludes ==
    /\ pc = "darwin_includes"
    /\ LET r  == getJDKIncludes(java_home)
           ps == ("libraries" :> <<"dl">>) @@
                 ("define_macros" :> << <<"MACOSX", 1>> >>) @@
                 platform_specific
       IN /\ platform_specific' =
                [ps EXCEPT !["include_dirs"] = @ \o r.dirs]
          /\ err' = r.err
          /\ banner' = r.banner
          /\ pc' = IF r.err = "none" THEN "extension" ELSE "aborted"
    /\ UNCHANGED <<cmdline, argv, disabled_numpy, platform, env_JAVA_HOME, fs,
                   numpy_available, java_home, possible_homes, jpypeLib, warned>>
    /\ UNCHANGED vmVars

(* ----------------------- setup.py, lines 105-134 ----------------------- *)
\* glob(dir + '/*'): the existing entries of dir, in some order
Glob(homes) == Perms({h \in homes : Exists(h)})

\* the for loop of lines 111-128 without the break of line 115
RECURSIVE LastWithInclude(_)
LastWithInclude(homes) ==
    IF homes = <<>> THEN PyNone
    ELSE IF ~LastWithInclude(Tail(homes)).isNone THEN LastWithInclude(Tail(homes))
    ELSE IF Exists(Join(Head(homes), <<"include">>)) THEN PyStr(Head(homes))
    ELSE PyNone

\* the for loop of lines 111-128: the first home with an include directory,
\* or None when the loop runs into its else
RECURSIVE FirstWithInclude(_)
FirstWithInclude(homes) ==
    IF homes = <<>> THEN PyNone
    ELSE IF Exists(Join(Head(homes), <<"include">>)) THEN PyStr(Head(homes))
    ELSE FirstWithInclude(Tail(homes))

LinuxIncludes(home) ==
    << Join(home, <<"include">>), Join(home, <<"include", "linux">>) >>

LinuxBranch ==
    /\ pc = "java_home"
    /\ platform \notin {"win32", "darwin"}
    /\ IF ~Truthy(java_home)
       THEN \E g1 \in Glob(JvmHomes), g2 \in Glob(JavaHomes) :
              /\ possible_homes' = g1 \o g2
              /\ IF FirstWithInclude(g1 \o g2).isNone
                 THEN /\ banner' = TRUE
                      /\ err' = "RuntimeError"
                      /\ pc' = "aborted"
                      /\ UNCHANGED <<java_home, platform_specific>>
                 ELSE /\ java_home' = FirstWithInclude(g1 \o g2)
                      /\ platform_specific' =
                            ("libraries" :> <<"dl">>) @@
                            [platform_specific EXCEPT !["include_dirs"] =
                                @ \o LinuxIncludes(java_home'.s)]
                      /\ pc' = "extension"
                      /\ UNCHANGED <<banner, err>>
       ELSE /\ platform_specific' =
                  ("libraries" :> <<"dl">>) @@
                  [platform_specific EXCEPT !["include_dirs"] =
                      @ \o LinuxIncludes(java_home.s)]
            /\ pc' = "extension"
            /\ UNCHANGED <<java_home, possible_homes, banner, err>>
    /\ UNCHANGED <<cmdline, argv, disabled_numpy, platform, env_JAVA_HOME, fs,
                   numpy_available, jpypeLib, warned>>
    /\ UNCHANGED vmVars

(* -------------------------- setup.py, line 137 ------------------------- *)
\* Extension(name='_jpype', **platform_specific): absent options are empty lists
Option(ps, key) == IF key \in DOMAIN ps THEN ps[key] ELSE <<>>

Extension(ps) ==
    [name |-> "_jpype",
     sources |-> Option(ps, "sources"),
     include_dirs |-> Option(ps, "include_dirs"),
     define_macros |-> Option(ps, "define_macros"),
     libraries |-> Option(ps, "libraries"),
     extra_compile_args |-> <<>>,
     extra_link_args |-> <<>>]

MakeExtension ==
    /\ pc = "extension"
    /\ jpypeLib' = Extension(platform_specific)
    /\ pc' = "setup"
    /\ UNCHANGED <<cmdline, argv, disabled_numpy, platform, env_JAVA_HOME, fs,
                   numpy_available, platform_specific, java_home,
                   possible_homes, err, banner, warned>>
    /\ UNCHANGED vmVars

(* ----------------------- setup.py, lines 197-231 ----------------------- *)
\* setup() runs the commands of sys.argv; whether build_ext is among the
\* commands it runs is decided by setuptools
Setup ==
    /\ pc = "setup"
    /\ \E runs_build_ext \in BOOLEAN :
         pc' = IF runs_build_ext THEN "build_ext" ELSE "done"
    /\ UNCHANGED <<cmdline, argv, disabled_numpy, platform, env_JAVA_HOME, fs,
                   numpy_available, platform_specific, java_home,
                   possible_homes, jpypeLib, err, banner, warned>>
    /\ UNCHANGED vmVars

(* ----------------------- setup.py, lines 150-195 ----------------------- *)
copt == ("msvc" :> <<"/EHsc">>) @@ ("gcc" :> <<>>) @@ ("mingw32" :> <<>>)
lopt == ("mingw32" :> <<>>)

\* lines 172-178
CompilerFlags(e, c) ==
    [e EXCEPT !.extra_compile_args = IF c \in DOMAIN copt THEN copt[c] ELSE @,
              !.extra_link_args = IF c \in DOMAIN lopt THEN lopt[c] ELSE @]

\* HandleNumpy with the opt-out test of line 181 left out
HandleNumpy_IgnoreOptOut(e, disabled, importable) ==
    IF importable
    THEN [e EXCEPT !.define_macros = Append(@, <<"HAVE_NUMPY", 1>>),
                   !.include_dirs = Append(@, NumpyInclude)]
    ELSE e

\* lines 181-192: ImportError is swallowed
HandleNumpy(e, disabled, importable) ==
    IF ~disabled /\ importable
    THEN [e EXCEPT !.define_macros = Append(@, <<"HAVE_NUMPY", 1>>),
                   !.include_dirs = Append(@, NumpyInclude)]
    ELSE e

NumpyWarning(disabled, importable) ==
    IF disabled THEN "OFF" ELSE IF importable THEN "ON" ELSE "none"

\* the Extension keeps the non-empty lists it was given, so the appends of
\* lines 184-185 are also seen through platform_specific
Aliased(ps, e) ==
    [key \in DOMAIN ps |->
        IF key \in {"include_dirs", "define_macros"} /\ ps[key] # <<>>
        THEN e[key] ELSE ps[key]]

BuildExtensions ==
    /\ pc = "build_ext"
    /\ \E c \in CompilerTypes :
         jpypeLib' = HandleNumpy(CompilerFlags(jpypeLib, c),
                                 disabled_numpy, numpy_available)
    /\ platform_specific' = Aliased(platform_specific, jpypeLib')
    /\ warned' = NumpyWarning(disabled_numpy, numpy_available)
    /\ pc' = "built"
    /\ UNCHANGED <<cmdline, argv, disabled_numpy, platform, env_JAVA_HOME, fs,
                   numpy_available, java_home, possible_homes, err, banner>>
    /\ UNCHANGED vmVars

Next ==
    \/ OptOut
    \/ PlatformSpecific
    \/ Win32Branch
    \/ DarwinGuess
    \/ DarwinIncludes
    \/ LinuxBranch
    \/ MakeExtension
    \/ Setup
    \/ BuildExtensions

Spec == Init /\ [][Next]_vars

(***************************************************************************)
(* VM Embedding Manager, Thread Context Manager and Reference Registry of  *)
(* spec.md sections 3, 4.1, 4.2 and 4.4 (the bridge that setup.py builds   *)
(* from the native tree).                                                  *)
(***************************************************************************)
Refs == 1..MaxRefs
Threads == 1..MaxThreads

\* start(configuration) that does not look for an existing VmHandle
StartOutcome_NoExistingCheck(handles, config_ok) ==
    IF ~config_ok THEN "StartupError" ELSE "ok"

\* outcome of start(configuration)
StartOutcome(handles, config_ok) ==
    IF handles # {} THEN "AlreadyStartedError"
    ELSE IF ~config_ok THEN "StartupError"
    ELSE "ok"

VmStart ==
    /\ \E config_ok \in BOOLEAN :
         LET r == StartOutcome(vmHandles, config_ok) IN
           /\ r = "ok" => vmNextId <= MaxStarts
           /\ vmResult' = r
           /\ vmHandles' = IF r = "ok" THEN vmHandles \cup {vmNextId} ELSE vmHandles
           /\ vmNextId' = IF r = "ok" THEN vmNextId + 1 ELSE vmNextId
    /\ vmLastOp' = "start"
    /\ UNCHANGED <<nativeRefs, attached>>
    /\ UNCHANGED buildVars

\* outcome of shutdown(VmHandle) with or without the force flag
ShutdownOutcome(refs, threads, force) ==
    IF (refs # {} \/ threads # {}) /\ ~force THEN "ShutdownError" ELSE "ok"

VmShutdown ==
    /\ \E h \in vmHandles, force \in BOOLEAN :
         LET r == ShutdownOutcome(nativeRefs, attached, force) IN
           /\ vmResult' = r
           /\ vmHandles' = IF r = "ok" THEN vmHandles \ {h} ELSE vmHandles
           /\ nativeRefs' = IF r = "ok" THEN {} ELSE nativeRefs
           /\ attached' = IF r = "ok" THEN {} ELSE attached
    /\ vmLastOp' = "shutdown"
    /\ UNCHANGED vmNextId
    /\ UNCHANGED buildVars

RegisterRef ==
    /\ vmHandles # {}
    /\ \E r \in Refs, out_of_memory \in BOOLEAN :
         IF out_of_memory
         THEN /\ vmResult' = "ResourceExhaustedError"
              /\ UNCHANGED nativeRefs
         ELSE /\ vmResult' = "ok"
              /\ nativeRefs' = nativeRefs \cup {r}
    /\ vmLastOp' = "register"
    /\ UNCHANGED <<vmHandles, vmNextId, attached>>
    /\ UNCHANGED buildVars

ReleaseRef ==
    /\ vmHandles # {}
    /\ \E r \in Refs : nativeRefs' = nativeRefs \ {r}
    /\ vmResult' = "ok"
    /\ vmLastOp' = "release"
    /\ UNCHANGED <<vmHandles, vmNextId, attached>>
    /\ UNCHANGED buildVars

EnsureAttached ==
    /\ vmHandles # {}
    /\ \E t \in Threads : attached' = attached \cup {t}
    /\ vmResult' = "ok"
    /\ vmLastOp' = "ensure_attached"
    /\ UNCHANGED <<vmHandles, vmNextId, nativeRefs>>
    /\ UNCHANGED buildVars

Detach ==
    /\ \E t \in attached : attached' = attached \ {t}
    /\ vmResult' = "ok"
    /\ vmLastOp' = "detach"
    /\ UNCHANGED <<vmHandles, vmNextId, nativeRefs>>
    /\ UNCHANGED buildVars

InitVm ==
    /\ pc = "optout"
    /\ cmdline = <<"setup.py">>
    /\ argv = cmdline
    /\ disabled_numpy = FALSE
    /\ platform = "linux2"
    /\ env_JAVA_HOME = PyNone
    /\ fs = {}
    /\ numpy_available = FALSE
    /\ platform_specific = EmptyDict
    /\ java_home = PyNone
    /\ possible_homes = <<>>
    /\ jpypeLib = EmptyDict
    /\ err = "none"
    /\ banner = FALSE
    /\ warned = "none"
    /\ VmIdle

NextVm ==
    \/ VmStart
    \/ VmShutdown
    \/ RegisterRef
    \/ ReleaseRef
    \/ EnsureAttached
    \/ Detach

SpecVm == InitVm /\ [][NextVm]_vars

(***************************************************************************)
(*                               Properties                                *)
(***************************************************************************)
Constructed == "name" \in DOMAIN jpypeLib
HaveNumpy == <<"HAVE_NUMPY", 1>>
NotFlag(a) == a # Flag
\* the platform branch of lines 55-134 has been left
BranchDone == pc \in {"aborted", "extension", "setup", "build_ext", "built", "done"}
BranchPassed == pc \in {"extension", "setup", "build_ext", "built", "done"}
IsLinux == platform \notin {"win32", "darwin"}

\* C1: after build_extensions has run, _jpype carries ('HAVE_NUMPY', 1) and
\* numpy's include directory exactly when --disable-numpy was not on the
\* command line and numpy can be imported; with the flag the macro is never
\* defined, and a failing import leaves the macro out and raises nothing.
C1_NumpyMacroIffEnabled ==
    /\ pc = "built" =>
         /\ Contains(jpypeLib.define_macros, HaveNumpy)
              <=> (~Contains(cmdline, Flag) /\ numpy_available)
         /\ Contains(jpypeLib.include_dirs, NumpyInclude)
              <=> (~Contains(cmdline, Flag) /\ numpy_available)
         /\ err = "none"
    /\ (Constructed /\ Contains(cmdline, Flag)) =>
         ~Contains(jpypeLib.define_macros, HaveNumpy)

C1_Witness ==
    /\ pc = "built"
    /\ ~Contains(cmdline, Flag)
    /\ numpy_available
    /\ Contains(jpypeLib.define_macros, HaveNumpy)

\* C2: on every platform branch, when JAVA_HOME is set to a non-empty value
\* the java_home the include directories are computed from is that value;
\* a guess or a fallback is used only when JAVA_HOME is unset.
C2_EnvJavaHomeUsed ==
    (pc \in {"darwin_includes"} \/ BranchDone) =>
        /\ Truthy(env_JAVA_HOME) => java_home = env_JAVA_HOME
        /\ java_home # env_JAVA_HOME => ~Truthy(env_JAVA_HOME)

\* the include directories getJDKIncludes can name for the java_home it is given
DarwinCandidates ==
    {FallbackHeaders} \cup
    (IF java_home.isNone THEN {}
     ELSE {Join(java_home.s, <<"Headers">>), Join(java_home.s, <<"include">>),
           Join(java_home.s, <<"include", "darwin">>)})

\* C3: a failed JDK discovery aborts the script before the Extension is
\* constructed: SystemExit on win32 without JAVA_HOME; the error banner and
\* RuntimeError on Linux without JAVA_HOME and without a candidate that has an
\* include directory; the error banner and RuntimeError on darwin when no
\* candidate include directory contains jni.h.
C3_DiscoveryFailureAborts ==
    /\ err # "none" => (pc = "aborted" /\ ~Constructed)
    /\ pc = "aborted" => ~Constructed
    /\ (platform = "win32" /\ ~Truthy(env_JAVA_HOME) /\ BranchDone) =>
          (err = "SystemExit" /\ pc = "aborted")
    /\ (IsLinux /\ ~Truthy(env_JAVA_HOME) /\ BranchDone
          /\ \A i \in DOMAIN possible_homes :
                Join(possible_homes[i], <<"include">>) \notin fs) =>
          (banner /\ err = "RuntimeError" /\ pc = "aborted")
    /\ (platform = "darwin" /\ BranchDone /\ err # "CalledProcessError"
          /\ \A d \in DarwinCandidates : Join(d, <<"jni.h">>) \notin fs) =>
          (banner /\ err = "RuntimeError" /\ pc = "aborted")

\* C4: disabled_numpy is True exactly when --disable-numpy occurred in
\* sys.argv, and after the opt-out handling sys.argv holds no
\* --disable-numpy entry, the other arguments staying in their order.
C4_FlagConsumed ==
    pc # "optout" =>
        /\ disabled_numpy <=> Contains(cmdline, Flag)
        /\ ~Contains(argv, Flag)
        /\ argv = SelectSeq(cmdline, NotFlag)

\* C5: at most one live VmHandle exists in every reachable state, and a
\* start while a VmHandle exists fails with AlreadyStartedError and leaves
\* the existing VmHandle unchanged.
C5_AtMostOneVmHandle ==
    /\ [](Cardinality(vmHandles) <= 1)
    /\ [][(vmLastOp' = "start" /\ vmHandles # {}) =>
            (vmResult' = "AlreadyStartedError" /\ vmHandles' = vmHandles)]_vars

C5_Witness ==
    /\ vmLastOp = "start"
    /\ vmResult = "AlreadyStartedError"
    /\ Cardinality(vmHandles) = 1
    /\ vmNextId > 2

\* C6: on the Linux branch without JAVA_HOME the chosen java_home is the
\* first entry, in the order of glob('/usr/lib/jvm/*') followed by
\* glob('/usr/java/*'), whose include directory exists, and the include
\* directories are the two native ones followed by <java_home>/include and
\* <java_home>/include/linux.
C6_FirstGuessedHome ==
    (IsLinux /\ ~Truthy(env_JAVA_HOME) /\ BranchPassed) =>
        /\ \E k \in 0..Len(possible_homes) :
              /\ \A j \in 1..k : possible_homes[j] \in JvmHomes
              /\ \A j \in (k + 1)..Len(possible_homes) : possible_homes[j] \in JavaHomes
        /\ \E i \in DOMAIN possible_homes :
              /\ java_home = PyStr(possible_homes[i])
              /\ Join(possible_homes[i], <<"include">>) \in fs
              /\ \A j \in 1..(i - 1) : Join(possible_homes[j], <<"include">>) \notin fs
        /\ SubSeq(platform_specific["include_dirs"], 1, 4) =
              << <<"native", "common", "include">>,
                 <<"native", "python", "include">>,
                 java_home.s \o <<"include">>,
                 java_home.s \o <<"include", "linux">> >>
        /\ pc # "built" => Len(platform_specific["include_dirs"]) = 4
        /\ (pc = "built" /\ Len(platform_specific["include_dirs"]) # 4) =>
              platform_specific["include_dirs"][5] = NumpyInclude

C6_Witness ==
    /\ IsLinux
    /\ ~Truthy(env_JAVA_HOME)
    /\ pc = "setup"
    /\ \E i, j \in DOMAIN possible_homes :
          /\ i < j
          /\ java_home = PyStr(possible_homes[i])
          /\ Join(possible_homes[j], <<"include">>) \in fs
====
